---- MODULE Spec2Model ----
(***************************************************************************)
(* ACC-A QCM trainer (src/src/App.jsx): the session state machine          *)
(* home -> quiz -> results of the App component, its preferences, the      *)
(* countdown interval, the keyboard handler and the bank import.           *)
(*                                                                         *)
(* One action is one event handler run to completion, followed by the      *)
(* re-render and the effects React runs after it (Effects below).  The     *)
(* interval callback and the keydown listener are closures created by an   *)
(* effect; they see the state of the render that created them, so the      *)
(* values they captured are part of the state (timer, keyAnswers).         *)
(***************************************************************************)
EXTENDS Integers, Sequences, FiniteSets, TLC

VARIABLES
    bank,        \* useState(QUESTIONS): the question bank
    mode,        \* "entrainement" | "examen"
    randomize,   \* "Tirage" checkbox
    timerOn,     \* "Minuterie" checkbox
    timerMin,    \* minutes of the countdown
    chapitre,    \* chapter filter, "" = all
    niveau,      \* level filter, "" = all
    count,       \* number of questions asked for
    view,        \* "home" | "quiz" | "results"
    quiz,        \* questions of the session
    order,       \* indices into quiz (0-based, as in the source)
    idx,         \* position in order (0-based)
    answers,     \* id -> chosen index, NONE where there is no entry
    startedAt,   \* Date.now() at start, 0 when unset
    timeLeft,    \* seconds shown by the countdown
    now,         \* Date.now(), in seconds, counted from the last start
    timer,       \* the interval set by the timer effect and what its closure captured
    keyAnswers,  \* the answers captured by the keydown listener's closure
    ev,          \* the dialogs the last step showed: see Out
    store        \* localStorage: key -> the item stored under it

prefs   == <<mode, randomize, timerOn, timerMin, chapitre, niveau, count>>
session == <<quiz, order, idx, answers, startedAt, timeLeft>>
vars    == <<bank, prefs, view, session, now, timer, keyAnswers, ev, store>>

----------------------------------------------------------------------------
(* Bounds of the model *)

MaxCount    == 1     \* largest number typed into the "Questions" input
ClockStep   == 60    \* seconds by which the clock advances in one step
MaxNow      == 61    \* the clock stops advancing here
MaxNiveau   == 0     \* how many of the levels are ever selected

(* Program constants *)

DefaultCount    == 10
DefaultTimerMin == 20
SecPerMin       == 60

Epoch == 1           \* the clock's reading at mount and at each start

NONE == 0 - 1        \* answers[id] is undefined / null

Min(a, b) == IF a < b THEN a ELSE b
Max(a, b) == IF a > b THEN a ELSE b

----------------------------------------------------------------------------
(* Questions.  A record of the bank is a parsed JSON object; the fields the *)
(* import inspects carry their JavaScript type next to their value.         *)

Ids == {"a", "b"}

niveaux == <<"debutant", "intermediaire", "avance">>

Str(s) == [t |-> "string", v |-> s]
Num(s) == [t |-> "number", v |-> s]

Q(id, ch, nv, nChoices, ans) ==
    [id |-> id, type |-> "mcq", chapitre |-> ch, niveau |-> nv,
     choicesT |-> "array", choices |-> SubSeq(<<"w", "x", "y", "z">>, 1, nChoices),
     answerIndexT |-> "number", answerIndex |-> ans,
     sourcesT |-> "array", sources |-> <<Str("Miltenberger")>>]

\* The bank the application starts with.
QUESTIONS ==
    << Q("a", "Renforcement", "debutant", 2, 1),
       Q("b", "Extinction", "intermediaire", 1, 0) >>

----------------------------------------------------------------------------
(* Derived values *)

Range(s) == {s[i] : i \in 1..Len(s)}

\* chapitres: the distinct chapters of the bank (options of the chapter select)
chapitres(b) == {q.chapitre : q \in Range(b)}

\* || between the two tests
MatchesEither(q, ch, nv) == (ch = "" \/ q.chapitre = ch) \/ (nv = "" \/ q.niveau = nv)

Matches(q, ch, nv) == (ch = "" \/ q.chapitre = ch) /\ (nv = "" \/ q.niveau = nv)

RECURSIVE Filter(_, _, _)
Filter(b, ch, nv) ==
    IF b = <<>> THEN <<>>
    ELSE IF Matches(Head(b), ch, nv)
         THEN <<Head(b)>> \o Filter(Tail(b), ch, nv)
         ELSE Filter(Tail(b), ch, nv)

\* filtered: the bank questions that pass both filters, in bank order
filtered == Filter(bank, chapitre, niveau)

----------------------------------------------------------------------------
(* shuffle: Fisher-Yates.  Math.random() makes j any index in 0..i, so the  *)
(* operator gives the set of arrays the loop can return.  Positions are     *)
(* 1-based here: the source's i runs from length-1 down to 1.               *)

\* [arr[i], arr[j]] = [arr[j], arr[i]] with the second assignment lost
SwapCopy(arr, i, j) == [arr EXCEPT ![i] = arr[j]]

Swap(arr, i, j) == [arr EXCEPT ![i] = arr[j], ![j] = arr[i]]

RECURSIVE ShuffleFrom(_, _)
ShuffleFrom(arr, i) ==
    IF i <= 1 THEN {arr}
    ELSE UNION {ShuffleFrom(Swap(arr, i, j), i - 1) : j \in 1..i}

shuffle(a) == ShuffleFrom(a, Len(a))

----------------------------------------------------------------------------
(* finish *)

\* quiz.filter(q => answers[q.id] == null).length
Unanswered(qz, ans) == Cardinality({i \in 1..Len(qz) : ans[qz[i].id] = NONE})

\* unanswered > 1 in place of unanswered > 0
NeedsConfirmLax(qz, ans, v) == Unanswered(qz, ans) > 1 /\ v = "quiz"

\* the condition under which finish() calls confirm()
NeedsConfirm(qz, ans, v) == Unanswered(qz, ans) > 0 /\ v = "quiz"

\* finish() as run by a closure that sees quiz qz, answers ans and view v, when
\* the user would answer ok to a confirm(): the next view and what confirm() gave.
finish(qz, ans, v, ok) ==
    IF NeedsConfirm(qz, ans, v)
    THEN [view |-> IF ok THEN "results" ELSE view,
          confirm |-> IF ok THEN "ok" ELSE "cancel"]
    ELSE [view |-> "results", confirm |-> "none"]

----------------------------------------------------------------------------
(* Import: the files a user may pick, as JSON.parse sees them. *)

Qa == Q("a", "Renforcement", "debutant", 2, 1)
Qb == Q("b", "Extinction", "intermediaire", 1, 0)

\* loose is an array the validation lets through: its first record has a number
\* among its sources; its second repeats the id of the first, has an answerIndex
\* past its three choices and "" as its sources.
ImportFiles ==
    [ invalid   |-> [json |-> "invalid", items |-> <<>>],
      object    |-> [json |-> "object",  items |-> <<>>],
      loose     |-> [json |-> "array",
                     items |-> <<[Qa EXCEPT !.sources = <<Str("p. 12"), Num("12")>>],
                                 [Q("a", "Renforcement", "debutant", 3, 5)
                                    EXCEPT !.sourcesT = "string", !.sources = <<Str("")>>]>>],
      type      |-> [json |-> "array",
                     items |-> <<Qa, [Qb EXCEPT !.type = "open"]>>],
      choices   |-> [json |-> "array",
                     items |-> <<[Qa EXCEPT !.choicesT = "string", !.choices = <<>>], Qb>>],
      answer    |-> [json |-> "array",
                     items |-> <<Qa, [Qb EXCEPT !.answerIndexT = "undefined"]>>],
      answerStr |-> [json |-> "array",
                     items |-> <<[Qa EXCEPT !.answerIndexT = "string"]>>],
      srcStr    |-> [json |-> "array",
                     items |-> <<Qa, [Qb EXCEPT !.sourcesT = "string",
                                                !.sources = <<Str("p. 12")>>]>>] ]

FileNames == DOMAIN ImportFiles

\* q.sources as a condition
Truthy(q) ==
    \/ q.sourcesT = "array"
    \/ q.sourcesT = "string" /\ q.sources[1].v # ""

\* the second check with && in place of ||
RecordErrorLax(q) ==
    IF q.type # "mcq" THEN "Toutes les questions doivent etre de type 'mcq'"
    ELSE IF q.choicesT # "array" /\ q.answerIndexT # "number"
         THEN "Chaque question doit avoir 'choices' et 'answerIndex'"
    ELSE IF Truthy(q) /\ q.sourcesT # "array"
         THEN "'sources' doit etre un tableau de chaines"
    ELSE ""

\* the checks of one record, in the order of the loop body; "" when it passes
RecordError(q) ==
    IF q.type # "mcq" THEN "Toutes les questions doivent etre de type 'mcq'"
    ELSE IF q.choicesT # "array" \/ q.answerIndexT # "number"
         THEN "Chaque question doit avoir 'choices' et 'answerIndex'"
    ELSE IF Truthy(q) /\ q.sourcesT # "array"
         THEN "'sources' doit etre un tableau de chaines"
    ELSE ""

RECURSIVE FirstError(_)
FirstError(items) ==
    IF items = <<>> THEN ""
    ELSE IF RecordError(Head(items)) # "" THEN RecordError(Head(items))
    ELSE FirstError(Tail(items))

\* the message of the exception reader.onload catches, "" when none is thrown
ImportError(data) ==
    IF data.json = "invalid" THEN "Unexpected token"
    ELSE IF data.json # "array" THEN "Le JSON doit etre un tableau"
    ELSE FirstError(data.items)

----------------------------------------------------------------------------
(* State after construction *)

NoAnswers == [i \in Ids |-> NONE]

NoTimer ==
    [active |-> FALSE, startedAt |-> 0, total |-> 0,
     quiz |-> <<>>, answers |-> NoAnswers, view |-> "home"]

\* download(filename, text) was not called
NoDownload == [filename |-> "", text |-> <<>>]

\* ev: the text of the alert() the last step raised ("" when none), what its
\* confirm() gave ("none" when it asked nothing, else "ok" or "cancel") and
\* the file it gave to download
Out(al, cf) == [alert |-> al, confirm |-> cf, download |-> NoDownload]

Quiet == Out("", "none")

----------------------------------------------------------------------------
(* localStorage, through ls.  An item is the JSON text ls.set stored, or is  *)
(* absent (getItem gives null).  Each persist effect runs after the render  *)
(* in which its value changed, and all of them after the first render.      *)

StoreKeys ==
    {"acca_bank", "acca_mode", "acca_rand", "acca_timer_on", "acca_timer_min",
     "acca_chap", "acca_niv", "acca_count"}

\* JSON.stringify(v), and JSON.parse of such a text
stringify(v) == [present |-> TRUE, json |-> v]
parse(item) == item.json

NoItem == [present |-> FALSE, json |-> ""]

EmptyStore == [k \in StoreKeys |-> NoItem]

\* ls.get(k, f): v ? JSON.parse(v) : f
lsGet(st, k, f) == IF st[k].present THEN parse(st[k]) ELSE f

\* ls.set(k, v) on the store st
lsSet(st, k, v) == [st EXCEPT ![k] = stringify(v)]

\* the values of the useState initialisers when the store is st
Initial(st) ==
    [bank      |-> QUESTIONS,
     mode      |-> lsGet(st, "acca_mode", "entrainement"),
     randomize |-> lsGet(st, "acca_rand", TRUE),
     timerOn   |-> lsGet(st, "acca_timer_on", FALSE),
     timerMin  |-> lsGet(st, "acca_timer_min", DefaultTimerMin),
     chapitre  |-> lsGet(st, "acca_chap", ""),
     niveau    |-> lsGet(st, "acca_niv", ""),
     count     |-> lsGet(st, "acca_count", DefaultCount)]

\* the persist effects at mount: each writes the value i holds for its key
MountEffects(st, i) ==
    lsSet(lsSet(lsSet(lsSet(lsSet(lsSet(lsSet(lsSet(st,
        "acca_bank", i.bank), "acca_mode", i.mode), "acca_rand", i.randomize),
        "acca_timer_on", i.timerOn), "acca_timer_min", i.timerMin),
        "acca_chap", i.chapitre), "acca_niv", i.niveau), "acca_count", i.count)

\* the first mount, in a browser whose store is empty
Init ==
    /\ bank = Initial(EmptyStore).bank
    /\ mode = Initial(EmptyStore).mode
    /\ randomize = Initial(EmptyStore).randomize
    /\ timerOn = Initial(EmptyStore).timerOn
    /\ timerMin = Initial(EmptyStore).timerMin
    /\ chapitre = Initial(EmptyStore).chapitre
    /\ niveau = Initial(EmptyStore).niveau
    /\ count = Initial(EmptyStore).count
    /\ store = MountEffects(EmptyStore, Initial(EmptyStore))
    /\ view = "home"
    /\ quiz = <<>>
    /\ order = <<>>
    /\ idx = 0
    /\ answers = NoAnswers
    /\ startedAt = 0
    /\ timeLeft = 0
    /\ now = Epoch
    /\ timer = NoTimer
    /\ keyAnswers = NoAnswers
    /\ ev = Quiet

----------------------------------------------------------------------------
(* The effects React runs after a handler's state updates are rendered.     *)
(* v, on, tm, sa, ix, ans, qz are the values of view, timerOn, timerMin,    *)
(* startedAt, idx, answers, quiz the handler left; fresh says that quiz and *)
(* order were replaced by new arrays; kept is the interval as the handler   *)
(* left it (cleared when the callback called clearInterval).                *)

\* the timer effect: if (!startedAt) setStartedAt(Date.now())
EffectStartedAt(v, on, sa) ==
    IF v = "quiz" /\ on /\ sa = 0 THEN now ELSE sa

\* the timer effect without the clearInterval of its cleanup
EffectTimerKept(v, on, tm, sa, qz, ans, kept) ==
    IF <<v, on, tm, sa>> = <<view, timerOn, timerMin, startedAt>> THEN kept
    ELSE IF v # "quiz" \/ ~on THEN kept
    ELSE [active |-> TRUE, startedAt |-> sa, total |-> tm * SecPerMin,
          quiz |-> qz, answers |-> ans, view |-> v]

\* the timer effect: cleanup, then a new interval when the view is quiz and
\* the timer is enabled; it runs only when one of its dependencies changed
EffectTimer(v, on, tm, sa, qz, ans, kept) ==
    IF <<v, on, tm, sa>> = <<view, timerOn, timerMin, startedAt>> THEN kept
    ELSE IF v # "quiz" \/ ~on THEN NoTimer
    ELSE [active |-> TRUE, startedAt |-> sa, total |-> tm * SecPerMin,
          quiz |-> qz, answers |-> ans, view |-> v]

\* the keyboard effect: a new onKey closure when view, quiz, order or idx changed
EffectKey(v, ix, ans, fresh) ==
    IF fresh \/ v # view \/ ix # idx THEN ans ELSE keyAnswers

Effects(v, on, tm, sa, ix, ans, qz, fresh, kept) ==
    /\ startedAt' = EffectStartedAt(v, on, sa)
    /\ timer' = EffectTimer(v, on, tm, EffectStartedAt(v, on, sa), qz, ans, kept)
    /\ keyAnswers' = EffectKey(v, ix, ans, fresh)

----------------------------------------------------------------------------
(* The filter bar (rendered in the home and results views) *)

FilterBarShown == view \in {"home", "results"}

setChapitre(c) ==
    /\ FilterBarShown
    /\ c \in {""} \cup chapitres(bank)
    /\ chapitre' = c
    /\ ev' = Quiet
    /\ store' = lsSet(store, "acca_chap", c)
    /\ Effects(view, timerOn, timerMin, startedAt, idx, answers, quiz, FALSE, timer)
    /\ UNCHANGED <<bank, mode, randomize, timerOn, timerMin, niveau, count, view,
                   quiz, order, idx, answers, timeLeft, now>>

NiveauOptions == {""} \cup {niveaux[i] : i \in 1..Min(MaxNiveau, Len(niveaux))}

\* the "Mode" select
setMode(m) ==
    /\ FilterBarShown
    /\ m \in {"entrainement", "examen"}
    /\ mode' = m
    /\ ev' = Quiet
    /\ store' = lsSet(store, "acca_mode", m)
    /\ Effects(view, timerOn, timerMin, startedAt, idx, answers, quiz, FALSE, timer)
    /\ UNCHANGED <<bank, randomize, timerOn, timerMin, chapitre, niveau, count, view,
                   quiz, order, idx, answers, timeLeft, now>>

setNiveau(n) ==
    /\ FilterBarShown
    /\ n \in {""} \cup Range(niveaux)
    /\ niveau' = n
    /\ ev' = Quiet
    /\ store' = lsSet(store, "acca_niv", n)
    /\ Effects(view, timerOn, timerMin, startedAt, idx, answers, quiz, FALSE, timer)
    /\ UNCHANGED <<bank, mode, randomize, timerOn, timerMin, chapitre, count, view,
                   quiz, order, idx, answers, timeLeft, now>>

\* Math.max(1, Math.min(bank.length, Number(value) || 1))
ClampCount(v, len) == Max(1, Min(len, IF v = 0 THEN 1 ELSE v))

setCount(v) ==
    /\ FilterBarShown
    /\ count' = ClampCount(v, Len(bank))
    /\ ev' = Quiet
    /\ store' = lsSet(store, "acca_count", ClampCount(v, Len(bank)))
    /\ Effects(view, timerOn, timerMin, startedAt, idx, answers, quiz, FALSE, timer)
    /\ UNCHANGED <<bank, mode, randomize, timerOn, timerMin, chapitre, niveau, view,
                   quiz, order, idx, answers, timeLeft, now>>

setRandomize(b) ==
    /\ FilterBarShown
    /\ randomize' = b
    /\ ev' = Quiet
    /\ store' = lsSet(store, "acca_rand", b)
    /\ Effects(view, timerOn, timerMin, startedAt, idx, answers, quiz, FALSE, timer)
    /\ UNCHANGED <<bank, mode, timerOn, timerMin, chapitre, niveau, count, view,
                   quiz, order, idx, answers, timeLeft, now>>

setTimerOn(b) ==
    /\ FilterBarShown
    /\ timerOn' = b
    /\ ev' = Quiet
    /\ store' = lsSet(store, "acca_timer_on", b)
    /\ Effects(view, b, timerMin, startedAt, idx, answers, quiz, FALSE, timer)
    /\ UNCHANGED <<bank, mode, randomize, timerMin, chapitre, niveau, count, view,
                   quiz, order, idx, answers, timeLeft, now>>

\* the numbers typed into the "Minutes" input
TimerMinInputs == {0, 1}

\* Math.max(1, Number(value) || 1); the input is rendered only when timerOn
ClampMin(v) == Max(1, IF v = 0 THEN 1 ELSE v)

setTimerMin(v) ==
    /\ FilterBarShown
    /\ timerOn
    /\ timerMin' = ClampMin(v)
    /\ ev' = Quiet
    /\ store' = lsSet(store, "acca_timer_min", ClampMin(v))
    /\ Effects(view, timerOn, ClampMin(v), startedAt, idx, answers, quiz, FALSE, timer)
    /\ UNCHANGED <<bank, mode, randomize, timerOn, chapitre, niveau, count, view,
                   quiz, order, idx, answers, timeLeft, now>>

----------------------------------------------------------------------------
(* The session *)

\* list.slice(0, Math.min(count, list.length))
Slice(list, n) == SubSeq(list, 1, Min(n, Len(list)))

\* slice.map((_, i) => i)
Identity(n) == [i \in 1..n |-> i - 1]

\* quiz[order[idx]]
current == quiz[order[idx + 1] + 1]

\* the first answer of a question kept
recordOnce(a, q, choiceIdx) ==
    IF a[q.id] = NONE THEN [a EXCEPT ![q.id] = choiceIdx] ELSE a

\* record(q, choiceIdx) applied to the answers a
record(a, q, choiceIdx) == [a EXCEPT ![q.id] = choiceIdx]

\* the guard dropped
NoMatchNever(list) == FALSE

\* !filtered.length
NoMatch(list) == Len(list) = 0

\* "Demarrer".  Date.now() enters the program only through its difference
\* with startedAt, so the clock is counted anew from each start.
start ==
    /\ FilterBarShown
    /\ IF NoMatch(filtered)
       THEN /\ ev' = Out("Aucune question ne correspond aux filtres.", "none")
            /\ Effects(view, timerOn, timerMin, startedAt, idx, answers, quiz, FALSE, timer)
            /\ UNCHANGED <<view, quiz, order, idx, answers, timeLeft, now>>
       ELSE \E list \in (IF randomize THEN shuffle(filtered) ELSE {filtered}) :
              /\ quiz' = Slice(list, count)
              /\ order' = Identity(Len(Slice(list, count)))
              /\ answers' = NoAnswers
              /\ idx' = 0
              /\ timeLeft' = (IF timerOn THEN timerMin * SecPerMin ELSE 0)
              /\ view' = "quiz"
              /\ ev' = Quiet
              /\ now' = Epoch
              /\ Effects("quiz", timerOn, timerMin, Epoch, 0, NoAnswers,
                         Slice(list, count), TRUE, timer)
    /\ UNCHANGED <<bank, store, prefs>>

\* a radio button of the current question
choose(i) ==
    /\ view = "quiz"
    /\ i \in 0..(Len(current.choices) - 1)
    /\ answers' = record(answers, current, i)
    /\ ev' = Quiet
    /\ Effects(view, timerOn, timerMin, startedAt, idx, answers', quiz, FALSE, timer)
    /\ UNCHANGED <<bank, store, prefs, view, quiz, order, idx, timeLeft, now>>

\* next() as run by a closure that sees the answers ans, with the user's reply ok
next(ans, a1, ok) ==
    IF idx + 1 < Len(order)
    THEN /\ idx' = idx + 1
         /\ view' = view
         /\ ev' = Quiet
         /\ Effects(view, timerOn, timerMin, startedAt, idx + 1, a1, quiz, FALSE, timer)
    ELSE /\ idx' = idx
         /\ view' = finish(quiz, ans, view, ok).view
         /\ ev' = Out("", finish(quiz, ans, view, ok).confirm)
         /\ Effects(finish(quiz, ans, view, ok).view, timerOn, timerMin, startedAt,
                    idx, a1, quiz, FALSE, timer)

\* prev() without its test of idx
prevUnguarded(a1) ==
    /\ idx' = idx - 1
    /\ view' = view
    /\ ev' = Quiet
    /\ Effects(view, timerOn, timerMin, startedAt, idx - 1, a1, quiz, FALSE, timer)

\* prev()
prev(a1) ==
    /\ idx' = (IF idx > 0 THEN idx - 1 ELSE idx)
    /\ view' = view
    /\ ev' = Quiet
    /\ Effects(view, timerOn, timerMin, startedAt,
               IF idx > 0 THEN idx - 1 ELSE idx, a1, quiz, FALSE, timer)

\* "Suivant" / "Terminer"
nextButton ==
    /\ view = "quiz"
    /\ \E ok \in BOOLEAN : next(answers, answers, ok)
    /\ UNCHANGED <<bank, store, prefs, quiz, order, answers, timeLeft, now>>

\* "Precedent" (disabled when idx is 0)
prevButton ==
    /\ view = "quiz"
    /\ idx # 0
    /\ prev(answers)
    /\ UNCHANGED <<bank, store, prefs, quiz, order, answers, timeLeft, now>>

\* a number of the navigator
goto(n) ==
    /\ view = "quiz"
    /\ n \in 0..(Len(order) - 1)
    /\ idx' = n
    /\ ev' = Quiet
    /\ Effects(view, timerOn, timerMin, startedAt, n, answers, quiz, FALSE, timer)
    /\ UNCHANGED <<bank, store, prefs, view, quiz, order, answers, timeLeft, now>>

\* "Quitter"
restartToHome ==
    /\ view = "quiz"
    /\ view' = "home"
    /\ quiz' = <<>>
    /\ order' = <<>>
    /\ idx' = 0
    /\ answers' = NoAnswers
    /\ timeLeft' = 0
    /\ ev' = Quiet
    /\ Effects("home", timerOn, timerMin, 0, 0, NoAnswers, <<>>, TRUE, timer)
    /\ UNCHANGED <<bank, store, prefs, now>>

\* "Nouvelle session": onClick={() => setView("home")}
newSession ==
    /\ view = "results"
    /\ view' = "home"
    /\ ev' = Quiet
    /\ Effects("home", timerOn, timerMin, startedAt, idx, answers, quiz, FALSE, timer)
    /\ UNCHANGED <<bank, store, prefs, quiz, order, idx, answers, timeLeft, now>>

----------------------------------------------------------------------------
(* The keydown listener.  Its closure is rebuilt when view, quiz, order or  *)
(* idx change, not when answers change: idx, order, quiz and view are the   *)
(* current ones, the answers that finish() reads are keyAnswers.            *)

DigitKeys == <<"1", "2", "3", "4", "5", "6">>
Keys == Range(DigitKeys) \cup {"n", "p"}

\* Number(e.key)
Number(key) == CHOOSE d \in 1..Len(DigitKeys) : DigitKeys[d] = key

HasCurrent ==
    /\ idx + 1 \in 1..Len(order)
    /\ order[idx + 1] + 1 \in 1..Len(quiz)

\* the digit recorded without the test of q.choices[n]
KeyRecordUnchecked(key) ==
    IF HasCurrent THEN record(answers, current, Number(key) - 1) ELSE answers

\* the answers after a digit key: if (!q) return; if (q.choices[n] != null) record(q, n)
KeyRecord(key) ==
    IF HasCurrent /\ Number(key) - 1 < Len(current.choices)
    THEN record(answers, current, Number(key) - 1)
    ELSE answers

\* onKey without its test of view
onKeyAnyView(key) ==
    /\ key \in Keys
    /\ IF key \in Range(DigitKeys)
       THEN /\ answers' = KeyRecord(key)
            /\ ev' = Quiet
            /\ Effects(view, timerOn, timerMin, startedAt, idx, KeyRecord(key), quiz,
                       FALSE, timer)
            /\ UNCHANGED <<view, idx>>
       ELSE IF key = "n"
       THEN /\ \E ok \in BOOLEAN : next(keyAnswers, answers, ok)
            /\ UNCHANGED answers
       ELSE /\ prev(answers)
            /\ UNCHANGED answers
    /\ UNCHANGED <<bank, store, prefs, quiz, order, timeLeft, now>>

onKey(key) ==
    /\ key \in Keys
    /\ IF view # "quiz"
       THEN /\ ev' = Quiet
            /\ Effects(view, timerOn, timerMin, startedAt, idx, answers, quiz, FALSE, timer)
            /\ UNCHANGED <<view, idx, answers>>
       ELSE IF key \in Range(DigitKeys)
       THEN /\ answers' = KeyRecord(key)
            /\ ev' = Quiet
            /\ Effects(view, timerOn, timerMin, startedAt, idx, KeyRecord(key), quiz,
                       FALSE, timer)
            /\ UNCHANGED <<view, idx>>
       ELSE IF key = "n"
       THEN /\ \E ok \in BOOLEAN : next(keyAnswers, answers, ok)
            /\ UNCHANGED answers
       ELSE /\ prev(answers)
            /\ UNCHANGED answers
    /\ UNCHANGED <<bank, store, prefs, quiz, order, timeLeft, now>>

----------------------------------------------------------------------------
(* The countdown: the callback of the interval the timer effect set.  It    *)
(* reads startedAt, total and finish from the render that set the interval. *)

\* Math.floor((Date.now() - (startedAt || Date.now())) / 1000)
Elapsed(t) == now - (IF t.startedAt # 0 THEN t.startedAt ELSE now)

\* Math.max(0, total - elapsed)
Left(t) == Max(0, t.total - Elapsed(t))

timerTick ==
    /\ timer.active
    /\ timeLeft' = Left(timer)
    /\ IF Left(timer) <= 0
       THEN \E ok \in BOOLEAN :
              /\ view' = finish(timer.quiz, timer.answers, timer.view, ok).view
              /\ ev' = Out("",
                           finish(timer.quiz, timer.answers, timer.view, ok).confirm)
              /\ Effects(finish(timer.quiz, timer.answers, timer.view, ok).view,
                         timerOn, timerMin, startedAt, idx, answers, quiz, FALSE, NoTimer)
       ELSE /\ view' = view
            /\ ev' = Quiet
            /\ Effects(view, timerOn, timerMin, startedAt, idx, answers, quiz, FALSE, timer)
    /\ UNCHANGED <<bank, store, prefs, quiz, order, idx, answers, now>>

\* time passes; only the interval callback reads the clock after start
advance ==
    /\ now + ClockStep <= MaxNow
    /\ timer.active
    /\ now' = now + ClockStep
    /\ ev' = Quiet
    /\ UNCHANGED <<bank, store, prefs, view, session, timer, keyAnswers>>

----------------------------------------------------------------------------
(* importBankFromFile: reader.onload for the file named f.  The alert of a  *)
(* rejected import is "Erreur d'import: " and the exception's message; ev   *)
(* keeps the prefix.                                                        *)

\* the outcome of the validation of each file
ImportErrors == [f \in FileNames |-> ImportError(ImportFiles[f])]

importBankFromFile(f) ==
    /\ f \in FileNames
    /\ ev' = Out(IF ImportErrors[f] = ""
                 THEN "Banque importee avec succes" ELSE "Erreur d'import", "none")
    /\ bank' = (IF ImportErrors[f] = "" THEN ImportFiles[f].items ELSE bank)
    /\ Effects(view, timerOn, timerMin, startedAt, idx, answers, quiz, FALSE, timer)
    /\ store' = lsSet(store, "acca_bank", bank')
    /\ UNCHANGED <<prefs, view, quiz, order, idx, answers, timeLeft, now>>

----------------------------------------------------------------------------
(* The page is loaded again, with the store as the last session left it:    *)
(* every useState initialiser runs anew.                                    *)

reload ==
    /\ bank' = Initial(store).bank
    /\ mode' = Initial(store).mode
    /\ randomize' = Initial(store).randomize
    /\ timerOn' = Initial(store).timerOn
    /\ timerMin' = Initial(store).timerMin
    /\ chapitre' = Initial(store).chapitre
    /\ niveau' = Initial(store).niveau
    /\ count' = Initial(store).count
    /\ view' = "home"
    /\ quiz' = <<>>
    /\ order' = <<>>
    /\ idx' = 0
    /\ answers' = NoAnswers
    /\ startedAt' = 0
    /\ timeLeft' = 0
    /\ now' = Epoch
    /\ timer' = NoTimer
    /\ keyAnswers' = NoAnswers
    /\ ev' = Quiet
    /\ store' = MountEffects(store, Initial(store))

----------------------------------------------------------------------------

Next ==
    \/ \E c \in {""} \cup chapitres(bank) : setChapitre(c)
    \/ \E n \in NiveauOptions : setNiveau(n)
    \/ \E v \in 0..MaxCount : setCount(v)
    \/ \E b \in BOOLEAN : setRandomize(b)
    \/ \E b \in BOOLEAN : setTimerOn(b)
    \/ \E v \in TimerMinInputs : setTimerMin(v)
    \/ start
    \/ \E i \in 0..2 : choose(i)
    \/ nextButton
    \/ prevButton
    \/ \E n \in 0..1 : goto(n)
    \/ restartToHome
    \/ newSession
    \/ \E key \in Keys : onKey(key)
    \/ timerTick
    \/ advance
    \/ \E f \in FileNames : importBankFromFile(f)
    \/ reload

Spec == Init /\ [][Next]_vars

\* The mode is read by the render alone (TopBarQuiz, showFeedback), never by a
\* handler or an effect other than its own persist effect: Spec leaves it as
\* the store gave it, SpecMode lets the "Mode" select change it.
NextMode ==
    \/ Next
    \/ \E m \in {"entrainement", "examen"} : setMode(m)

SpecMode == Init /\ [][NextMode]_vars

----------------------------------------------------------------------------
(* JavaScript numbers are IEEE 754 doubles.  A positive double is the 53     *)
(* bits of its significand, the most significant first (sig[1] = 1), and    *)
(* the exponent of that first bit: its value is sig[1].sig[2]...sig[53]     *)
(* times 2^exp.  The quotient and product of doubles are the exact results  *)
(* rounded to the nearest double, ties to the even significand.  Products   *)
(* are computed on digits of LimbBits bits, so that no intermediate number  *)
(* leaves the range of the model checker's integers.                        *)

Precision == 53
LimbBits  == 13

Zeros(n) == [i \in 1..n |-> 0]

\* 2^n
RECURSIVE Pow2(_)
Pow2(n) == IF n = 0 THEN 1 ELSE 2 * Pow2(n - 1)

\* 2^n modulo d, by squaring
RECURSIVE Pow2Mod(_, _)
Pow2Mod(n, d) ==
    IF n = 0 THEN 1 % d
    ELSE LET h == Pow2Mod(n \div 2, d)
         IN  (h * h * (IF n % 2 = 1 THEN 2 ELSE 1)) % d

\* the binary digits of the natural number n, most significant first
RECURSIVE Binary(_)
Binary(n) == IF n = 0 THEN <<>> ELSE Binary(n \div 2) \o <<n % 2>>

\* the natural number whose binary digits are b (at most LimbBits of them)
RECURSIVE BitsValue(_)
BitsValue(b) ==
    IF b = <<>> THEN 0 ELSE 2 * BitsValue(SubSeq(b, 1, Len(b) - 1)) + b[Len(b)]

\* bits + 1 on the digits of a significand: a digit flips when every digit
\* after it is 1
Incremented(bits) ==
    [i \in 1..Len(bits) |->
        IF \A j \in (i + 1)..Len(bits) : bits[j] = 1 THEN 1 - bits[i] ELSE bits[i]]

\* the double nearest to the number whose digits are bits (bits[1] = 1, of
\* exponent exp), sticky telling that non-zero digits follow those given
RoundToDouble(bits, sticky, exp) ==
    IF Len(bits) <= Precision
    THEN [sig |-> bits \o Zeros(Precision - Len(bits)), exp |-> exp]
    ELSE LET kept  == SubSeq(bits, 1, Precision)
             guard == bits[Precision + 1]
             rest  == sticky \/ \E i \in (Precision + 2)..Len(bits) : bits[i] = 1
             up    == guard = 1 /\ (rest \/ kept[Precision] = 1)
         IN  IF ~up THEN [sig |-> kept, exp |-> exp]
             ELSE IF \A i \in 1..Precision : kept[i] = 1
                  THEN [sig |-> <<1>> \o Zeros(Precision - 1), exp |-> exp + 1]
                  ELSE [sig |-> Incremented(kept), exp |-> exp]

\* the double of the natural number n > 0 (exact below 2^53)
Double(n) == RoundToDouble(Binary(n), FALSE, Len(Binary(n)) - 1)

\* the least s with a * 2^s >= b
RECURSIVE ShiftUp(_, _)
ShiftUp(a, b) == IF a >= b THEN 0 ELSE 1 + ShiftUp(2 * a, b)

\* a / b for natural numbers 0 < a <= b, as a double: with a * 2^s in
\* [b, 2b), the quotient is 1.d1 d2 ... times 2^-s, where the digit di is
\* found from the remainder of a * 2^s * 2^(i-1) by b
Quotient(a, b) ==
    LET s      == ShiftUp(a, b)
        r0     == a * Pow2(s) - b
        Rem(i) == (r0 * Pow2Mod(i, b)) % b
        digits == [i \in 1..Precision |-> (2 * Rem(i - 1)) \div b]
    IN  RoundToDouble(<<1>> \o digits, Rem(Precision) # 0, 0 - s)

\* b without its trailing zeros
Stripped(b) ==
    SubSeq(b, 1, CHOOSE n \in 0..Len(b) :
                    /\ n = 0 \/ b[n] = 1
                    /\ \A i \in (n + 1)..Len(b) : b[i] = 0)

\* the digits of LimbBits bits, least significant first, of the number
\* whose binary digits are b
Limbs(b) ==
    [k \in 1..((Len(b) + LimbBits - 1) \div LimbBits) |->
        BitsValue(SubSeq(b, Max(1, Len(b) - LimbBits * k + 1),
                         Len(b) - LimbBits * (k - 1)))]

\* the binary digits, most significant first, of the number whose limbs are l
LimbsToBits(l) ==
    [i \in 1..(LimbBits * Len(l)) |->
        LET p == LimbBits * Len(l) - i
        IN  (l[p \div LimbBits + 1] \div Pow2(p % LimbBits)) % 2]

\* the sum of x[i] * y[c + 1 - i] over the i for which both exist
RECURSIVE Column(_, _, _, _)
Column(x, y, c, i) ==
    IF i > Len(x) THEN 0
    ELSE (IF c + 1 - i \in 1..Len(y) THEN x[i] * y[c + 1 - i] ELSE 0)
         + Column(x, y, c, i + 1)

\* the limbs of x * y, from its column c on, with the carry of the columns before
RECURSIVE TimesFrom(_, _, _, _)
TimesFrom(x, y, c, carry) ==
    IF c > Len(x) + Len(y) THEN <<>>
    ELSE LET sum == Column(x, y, c, 1) + carry
         IN  <<sum % Pow2(LimbBits)>> \o TimesFrom(x, y, c + 1, sum \div Pow2(LimbBits))

\* x * y for doubles
Times(x, y) ==
    LET ys   == Stripped(y.sig)
        p    == LimbsToBits(TimesFrom(Limbs(x.sig), Limbs(ys), 1, 0))
        lead == CHOOSE i \in 1..Len(p) : p[i] = 1 /\ \A j \in 1..(i - 1) : p[j] = 0
    IN  RoundToDouble(SubSeq(p, lead, Len(p)), FALSE,
                      (Len(p) - lead) + (x.exp - (Precision - 1)) + (y.exp - (Len(ys) - 1)))

\* Math.round(x) for a positive double below 2^LimbBits: the nearest
\* integer, a half rounded up
MathRound(x) ==
    IF x.exp < 0 - 1 THEN 0
    ELSE IF x.exp = 0 - 1 THEN 1
    ELSE BitsValue(SubSeq(x.sig, 1, x.exp + 1)) + x.sig[x.exp + 2]

----------------------------------------------------------------------------
(* score: the useMemo of the results view *)

\* answers[q.id] === q.answerIndex
good(q, ans) == ans[q.id] # NONE /\ ans[q.id] = q.answerIndex

scoreOk(qz, ans) == Cardinality({i \in 1..Len(qz) : good(qz[i], ans)})

\* total ? Math.round((ok / total) * 100) : 0
scorePct(ok, total) ==
    IF total = 0 THEN 0
    ELSE IF ok = 0 THEN 0
    ELSE MathRound(Times(Quotient(ok, total), Double(100)))

\* Names that every object inherits from Object.prototype: for these
\* byChap[c] is an object (or a function) before anything was assigned to it,
\* so that !byChap[c] is false and the += of the loop land on the inherited
\* value, not on a property of byChap.
ObjectPrototype ==
    {"constructor", "hasOwnProperty", "isPrototypeOf", "propertyIsEnumerable",
     "toLocaleString", "toString", "valueOf", "__proto__"}

\* byChap after the loop: an own property for each chapter that is not an
\* inherited name, counting the questions of the chapter and the good ones
scoreByChap(qz, ans) ==
    [c \in {qz[i].chapitre : i \in 1..Len(qz)} \ ObjectPrototype |->
        [ok    |-> Cardinality({i \in 1..Len(qz) :
                                   qz[i].chapitre = c /\ good(qz[i], ans)}),
         total |-> Cardinality({i \in 1..Len(qz) : qz[i].chapitre = c})]]

\* the value of the useMemo: null unless the view is results
score ==
    IF view # "results" THEN [null |-> TRUE]
    ELSE [null   |-> FALSE,
          ok     |-> scoreOk(quiz, answers),
          total  |-> Len(quiz),
          pct    |-> scorePct(scoreOk(quiz, answers), Len(quiz)),
          byChap |-> scoreByChap(quiz, answers)]

----------------------------------------------------------------------------
(* Steps that call finish(): "Suivant"/"Terminer" or the key n on the last  *)
(* question, and the interval callback once no time is left.                *)

OnLast == view = "quiz" /\ ~(idx + 1 < Len(order))

FinishByButton == OnLast /\ nextButton
FinishByKey    == OnLast /\ onKey("n")
FinishByTimer  == timerTick /\ Left(timer) <= 0

FinishCalled == FinishByButton \/ FinishByKey \/ FinishByTimer

SessionCleared ==
    /\ quiz = <<>>
    /\ order = <<>>
    /\ idx = 0
    /\ answers = NoAnswers
    /\ startedAt = 0
    /\ timeLeft = 0

----------------------------------------------------------------------------
(* C1: when the countdown of a timed session reaches zero, the timer        *)
(* callback's finish shows no confirmation prompt and the view becomes      *)
(* results, also when questions are unanswered.                             *)
C1_TimerExpiryEndsSession ==
    [][FinishByTimer => (ev'.confirm = "none" /\ view' = "results")]_vars

(* C2: "new session" in the results view moves to home and clears the       *)
(* session: quiz and order empty, idx 0, answers empty, startedAt and       *)
(* timeLeft reset.                                                          *)
C2_NewSessionClears ==
    [][newSession => (view' = "home" /\ SessionCleared')]_vars

(* C3: when finish is called while a quiz question has no recorded answer,  *)
(* the user is asked to confirm; declining leaves the view quiz and quiz,   *)
(* order, idx and answers as they were; accepting moves to results.         *)
C3_FinishAsksWhenUnanswered ==
    [][(FinishCalled /\ Unanswered(quiz, answers) > 0) =>
         /\ ev'.confirm # "none"
         /\ ev'.confirm = "cancel" =>
               (view' = "quiz" /\ UNCHANGED <<quiz, order, idx, answers>>)
         /\ ev'.confirm = "ok" => view' = "results"]_vars

C3_Witness ==
    /\ view = "quiz"
    /\ ev.confirm = "cancel"
    /\ Unanswered(quiz, answers) > 0
    /\ Unanswered(quiz, answers) < Len(quiz)

(* C4: start with an empty filtered set raises the alert and changes        *)
(* nothing: view, quiz, order, idx, answers, startedAt and timeLeft keep    *)
(* their values.                                                            *)
C4_StartWithoutMatchChangesNothing ==
    [][(FilterBarShown /\ Len(filtered) = 0 /\ start) =>
         /\ ev'.alert = "Aucune question ne correspond aux filtres."
         /\ UNCHANGED <<view, quiz, order, idx, answers, startedAt, timeLeft>>]_vars

C4_Witness ==
    /\ ev.alert = "Aucune question ne correspond aux filtres."
    /\ Len(filtered) = 0
    /\ view = "results"
    /\ Len(quiz) > 0


\* a step of start that builds a quiz
StartOk == view' = "quiz" /\ view # "quiz" /\ start

DistinctIds(s) == \A i, j \in 1..Len(s) : i # j => s[i].id # s[j].id

\* qz takes its entries from pairwise different positions of f
FromDistinctPositions(qz, f) ==
    \E m \in [1..Len(qz) -> 1..Len(f)] :
        /\ \A i, j \in 1..Len(qz) : i # j => m[i] # m[j]
        /\ \A i \in 1..Len(qz) : qz[i] = f[m[i]]

----------------------------------------------------------------------------
\* a record that breaks the validation of type, choices or answerIndex
Violates(q) ==
    \/ q.type # "mcq"
    \/ q.choicesT # "array"
    \/ q.answerIndexT # "number"

IsArrayFile(f) == ImportFiles[f].json = "array"

\* a step of the import of the file f; every import ends in an alert
ImportOf(f) == ev'.alert # "" /\ importBankFromFile(f)

HasViolation(f) ==
    /\ IsArrayFile(f)
    /\ \E i \in 1..Len(ImportFiles[f].items) : Violates(ImportFiles[f].items[i])

ViolatingFiles == {f \in FileNames : HasViolation(f)}

\* the arrays without such a record
CleanArrays == {ImportFiles[f].items : f \in {g \in FileNames : IsArrayFile(g)} \ ViolatingFiles}

(* C6: importing an array with a record whose type is not "mcq", whose      *)
(* choices is not a list or whose answerIndex is missing or not a number    *)
(* raises an error and leaves the bank as it was; the bank only ever        *)
(* changes to the whole of an array without such a record (or, when the     *)
(* page is loaded again, back to the built-in bank).                        *)
C6_ImportAllOrNothing ==
    [][/\ \A f \in ViolatingFiles :
            ImportOf(f) => (bank' = bank /\ ev'.alert = "Erreur d'import")
       /\ (bank' # bank /\ ~reload) => bank' \in CleanArrays]_vars

C6_Witness ==
    /\ ev.alert = "Erreur d'import"
    /\ bank = ImportFiles.loose.items
    /\ view = "quiz"

\* sources present and not a list of strings
MalformedSources(q) ==
    /\ q.sourcesT # "undefined"
    /\ ~(q.sourcesT = "array" /\ \A k \in 1..Len(q.sources) : q.sources[k].t = "string")

MalformedSourcesFiles ==
    {f \in FileNames :
        /\ IsArrayFile(f)
        /\ \E i \in 1..Len(ImportFiles[f].items) : MalformedSources(ImportFiles[f].items[i])}

(* C7: importing an array with a record whose sources is present and is not *)
(* a list of strings raises an error and leaves the bank untouched.         *)
C7_MalformedSourcesRejected ==
    [][\A f \in MalformedSourcesFiles :
          ImportOf(f) => (bank' = bank /\ ev'.alert = "Erreur d'import")]_vars

(* C8: in every reachable state the answerIndex of every question of the    *)
(* bank and of the quiz is an index into its choices.                       *)
C8_AnswerIndexInBounds ==
    \A q \in Range(bank) \cup Range(quiz) :
        q.answerIndex \in 0..(Len(q.choices) - 1)

----------------------------------------------------------------------------
(* C9: during a session idx is in 0..order.length-1, so that the current    *)
(* question is defined, and order is a permutation of the indices of quiz.  *)
C9_IdxInOrder ==
    /\ Len(order) = Len(quiz)
    /\ {order[i] : i \in 1..Len(order)} = 0..(Len(quiz) - 1)
    /\ view # "home" => (0 <= idx /\ idx < Len(order) /\ HasCurrent)

C9_Witness ==
    /\ view = "quiz"
    /\ Len(order) = 2
    /\ idx = 1
    /\ keyAnswers # answers

----------------------------------------------------------------------------
\* a step that records the choice i for the current question: its radio
\* button, or its digit key
RecordStep(i) ==
    /\ view = "quiz"
    /\ view' = "quiz"
    /\ \/ choose(i)
       \/ /\ i + 1 \in 1..Len(DigitKeys)
          /\ i < Len(current.choices)
          /\ onKey(DigitKeys[i + 1])

\* the position in quiz of the current question
currentPos == order[idx + 1] + 1

(* C11 as stated: recording an answer sets answers[question.id] to the      *)
(* chosen index, whatever was there; recording the same choice again        *)
(* changes nothing; the answers of all other questions of the quiz, idx and *)
(* the view are unchanged.                                                  *)
C11_RecordLeavesOtherQuestions ==
    [][\A i \in 0..2 : RecordStep(i) =>
          /\ answers'[current.id] = i
          /\ record(answers', current, i) = answers'
          /\ (answers[current.id] = i /\ ev = Quiet) => UNCHANGED vars
          /\ \A j \in 1..Len(quiz) :
                j # currentPos => answers'[quiz[j].id] = answers[quiz[j].id]
          /\ UNCHANGED <<idx, view>>]_vars

(* C11 amended: recording an answer sets answers[question.id] to the chosen *)
(* index, whatever was there; recording the same choice again changes       *)
(* nothing; the answers under every other id, idx and the view are          *)
(* unchanged.                                                               *)
C11_RecordLeavesOtherIds ==
    [][\A i \in 0..2 : RecordStep(i) =>
          /\ answers'[current.id] = i
          /\ record(answers', current, i) = answers'
          /\ (answers[current.id] = i /\ ev = Quiet) => UNCHANGED vars
          /\ \A k \in Ids \ {current.id} : answers'[k] = answers[k]
          /\ UNCHANGED <<idx, view>>]_vars

C11_Witness ==
    /\ view = "quiz"
    /\ Len(quiz) = 2
    /\ idx = 0
    /\ keyAnswers[current.id] = 0
    /\ answers[current.id] = 1
    /\ \E k \in Ids \ {current.id} : answers[k] # NONE

----------------------------------------------------------------------------
(* The end of a session, for the quizzes of banks of up to MaxQuiz          *)
(* questions: the user has answered questions, stands on the last one and   *)
(* presses "Terminer".  The bank has t questions over the first n chapters  *)
(* of ScoreChapters, each with two choices of which the second is right;    *)
(* count is t and the draw is off, so the quiz is the bank.  The first k    *)
(* questions are answered right, the others wrong, the last one not at all  *)
(* when miss.                                                               *)

MaxQuiz == 40

ScoreChapters == <<"Renforcement", "Extinction", "toString">>

ScoreId(i) == "q" \o ToString(i)

ScoreBank(t, n) ==
    [i \in 1..t |->
        Q(ScoreId(i), ScoreChapters[((i - 1) % n) + 1], "debutant", 2, 1)]

ScoreAnswers(t, k, miss) ==
    [id \in {ScoreId(i) : i \in 1..t} |->
        LET i == CHOOSE j \in 1..t : ScoreId(j) = id
        IN  IF i <= k THEN 1 ELSE IF miss /\ i = t THEN NONE ELSE 0]

ScoreInit ==
    \E t \in 1..MaxQuiz, n \in 1..Len(ScoreChapters), miss \in BOOLEAN :
    \E k \in 0..(IF miss THEN t - 1 ELSE t) :
        /\ bank = ScoreBank(t, n)
        /\ mode = "entrainement"
        /\ randomize = FALSE
        /\ timerOn = FALSE
        /\ timerMin = DefaultTimerMin
        /\ chapitre = ""
        /\ niveau = ""
        /\ count = t
        /\ store = MountEffects(EmptyStore,
                                [bank |-> ScoreBank(t, n), mode |-> "entrainement",
                                 randomize |-> FALSE, timerOn |-> FALSE,
                                 timerMin |-> DefaultTimerMin, chapitre |-> "",
                                 niveau |-> "", count |-> t])
        /\ view = "quiz"
        /\ quiz = ScoreBank(t, n)
        /\ order = Identity(t)
        /\ idx = t - 1
        /\ answers = ScoreAnswers(t, k, miss)
        /\ startedAt = Epoch
        /\ timeLeft = 0
        /\ now = Epoch
        /\ timer = NoTimer
        /\ keyAnswers = ScoreAnswers(t, k, miss)
        /\ ev = Quiet

ScoreNext ==
    \/ nextButton
    \/ newSession

ScoreSpec == ScoreInit /\ [][ScoreNext]_vars

\* n / d rounded to the nearest integer, a half rounded up
RoundHalfUp(n, d) == (2 * n + d) \div (2 * d)

(* C12: in the results view ok is the number of quiz questions whose         *)
(* recorded answer equals the answerIndex (an unanswered question is not    *)
(* among them), total is the length of the quiz and pct is 100*ok/total     *)
(* rounded to the nearest integer; pct is 0 when total is 0, and 3 of 4     *)
(* gives 75.                                                                *)
C12_PctIsRoundedShare ==
    /\ scorePct(0, 0) = 0
    /\ scorePct(3, 4) = 75
    /\ view = "results" =>
          LET sc == score
          IN  /\ sc.ok = Cardinality({i \in 1..Len(quiz) :
                                         answers[quiz[i].id] = quiz[i].answerIndex})
              /\ sc.total = Len(quiz)
              /\ sc.pct = RoundHalfUp(100 * sc.ok, sc.total)

RECURSIVE SumOver(_, _, _)
SumOver(g, field, keys) ==
    IF keys = {} THEN 0
    ELSE LET c == CHOOSE c \in keys : TRUE
         IN  g[c][field] + SumOver(g, field, keys \ {c})

(* C20: in the results view every quiz question is counted in the group of  *)
(* its chapter, each group has 0 <= ok <= total and total >= 1, the totals  *)
(* of the groups add up to the total of the score and their ok counts to    *)
(* its ok.                                                                  *)
C20_ChaptersPartitionQuiz ==
    view = "results" =>
        LET byChap == scoreByChap(quiz, answers)
        IN  /\ \A i \in 1..Len(quiz) : quiz[i].chapitre \in DOMAIN byChap
            /\ \A c \in DOMAIN byChap :
                  /\ 0 <= byChap[c].ok
                  /\ byChap[c].ok <= byChap[c].total
                  /\ byChap[c].total >= 1
            /\ SumOver(byChap, "total", DOMAIN byChap) = Len(quiz)
            /\ SumOver(byChap, "ok", DOMAIN byChap) = scoreOk(quiz, answers)

----------------------------------------------------------------------------
(* The filter bar alone, with every level of the "Niveau" select: the       *)
(* preferences, the import and the load, without sessions.                  *)

FilterNext ==
    \/ \E c \in {""} \cup chapitres(bank) : setChapitre(c)
    \/ \E n \in {""} \cup Range(niveaux) : setNiveau(n)
    \/ \E m \in {"entrainement", "examen"} : setMode(m)
    \/ \E v \in 0..MaxCount : setCount(v)
    \/ \E b \in BOOLEAN : setRandomize(b)
    \/ \E b \in BOOLEAN : setTimerOn(b)
    \/ \E v \in TimerMinInputs : setTimerMin(v)
    \/ \E f \in FileNames : importBankFromFile(f)
    \/ reload

FilterSpec == Init /\ [][FilterNext]_vars

\* q has the selected chapter, if one is selected, and the selected level,
\* if one is selected
Selected(q) ==
    /\ chapitre # "" => q.chapitre = chapitre
    /\ niveau # "" => q.niveau = niveau

(* C13: whatever the bank and the selections, the filtered set is the       *)
(* subsequence of the bank, in bank order, of the questions whose chapitre  *)
(* is the selected chapter (when one is selected) and whose niveau is the   *)
(* selected level (when one is selected); with neither selected it is the   *)
(* bank.                                                                    *)
C13_FilteredIsTheMatches ==
    /\ filtered = SelectSeq(bank, Selected)
    /\ (chapitre = "" /\ niveau = "") => filtered = bank

C13_Witness ==
    /\ chapitre # ""
    /\ niveau # ""
    /\ Len(bank) = 2
    /\ Len(filtered) = 1
    /\ filtered[1] = bank[2]

----------------------------------------------------------------------------
\* each key of the store holds the value in use
Persisted ==
    /\ store["acca_bank"] = stringify(bank)
    /\ store["acca_mode"] = stringify(mode)
    /\ store["acca_rand"] = stringify(randomize)
    /\ store["acca_timer_on"] = stringify(timerOn)
    /\ store["acca_timer_min"] = stringify(timerMin)
    /\ store["acca_chap"] = stringify(chapitre)
    /\ store["acca_niv"] = stringify(niveau)
    /\ store["acca_count"] = stringify(count)

\* the values in use after the step are the ones the store held before it
Restored ==
    /\ bank' = parse(store["acca_bank"])
    /\ mode' = parse(store["acca_mode"])
    /\ randomize' = parse(store["acca_rand"])
    /\ timerOn' = parse(store["acca_timer_on"])
    /\ timerMin' = parse(store["acca_timer_min"])
    /\ chapitre' = parse(store["acca_chap"])
    /\ niveau' = parse(store["acca_niv"])
    /\ count' = parse(store["acca_count"])

(* C14: after every step each of the eight keys holds the value in use      *)
(* (written on every change), and a load of the page with the same store    *)
(* gives back every one of them, the bank included: after an import and a   *)
(* reload the bank in use is the persisted, imported bank.                  *)
C14_StoreReadBackAtStartup ==
    [][Persisted' /\ (reload => Restored)]_vars

----------------------------------------------------------------------------
(* C15: leaving aside a load of the page, the view changes only from home   *)
(* to quiz by a start, from quiz to results by a finish, from results to    *)
(* home by "Nouvelle session" and from quiz to home by "Quitter"; no start  *)
(* leads from results to quiz.                                              *)
C15_ViewFollowsStateMachine ==
    [][(view' # view /\ ~reload) =>
          \/ view = "home" /\ view' = "quiz" /\ start
          \/ view = "quiz" /\ view' = "results" /\ FinishCalled
          \/ view = "results" /\ view' = "home" /\ newSession
          \/ view = "quiz" /\ view' = "home" /\ restartToHome]_vars

----------------------------------------------------------------------------
(* The quiz view, as the render builds it from the state: what the user     *)
(* sees while view is "quiz".                                               *)

\* TopBarQuiz: quiz.length ? Math.round((idx / quiz.length) * 100) : 0
progress(ix, n) ==
    IF n = 0 THEN 0
    ELSE IF ix = 0 THEN 0
    ELSE MathRound(Times(Quotient(ix, n), Double(100)))

TopBarQuiz(qz, ix, md, on, tl) ==
    [position |-> Min(ix + 1, Len(qz)),
     total    |-> Len(qz),
     timeLeft |-> IF on THEN tl ELSE NONE,
     mode     |-> md,
     progress |-> progress(ix, Len(qz))]

\* QuestionNavigator: the colour of the button of question q
status(q, ans) ==
    IF ans[q.id] = NONE THEN "bg-white"
    ELSE IF ans[q.id] = q.answerIndex THEN "bg-green-50"
    ELSE "bg-yellow-50"

QuestionNavigator(qz, ord, ans) ==
    [n \in 1..Len(ord) |-> status(qz[ord[n] + 1], ans)]

showFeedback(md, selected) == md = "entrainement" /\ selected # NONE

NoFeedback == [text |-> "", sources |-> <<>>]

\* what is written under choice i of the question cur
feedback(cur, selected, md, i) ==
    IF showFeedback(md, selected) /\ selected = i
    THEN [text    |-> IF selected = cur.answerIndex THEN "Bonne reponse."
                      ELSE "Reponse incorrecte.",
          sources |-> IF cur.sourcesT = "array" /\ Len(cur.sources) > 0
                      THEN cur.sources ELSE <<>>]
    ELSE NoFeedback

QuizView(qz, ord, ix, ans, md, on, tl) ==
    LET cur      == qz[ord[ix + 1] + 1]
        selected == ans[cur.id]
    IN  [top       |-> TopBarQuiz(qz, ix, md, on, tl),
         chapitre  |-> cur.chapitre,
         niveau    |-> cur.niveau,
         choices   |-> [i \in 1..Len(cur.choices) |->
                          [text     |-> cur.choices[i],
                           checked  |-> selected = i - 1,
                           feedback |-> feedback(cur, selected, md, i - 1)]],
         prevOff   |-> ix = 0,
         nextLabel |-> IF ix + 1 < Len(ord) THEN "Suivant" ELSE "Terminer",
         navigator |-> QuestionNavigator(qz, ord, ans)]

\* the view of the current state
Shown == QuizView(quiz, order, idx, answers, mode, timerOn, timeLeft)

\* the view of the session that differs from the current one in the right
\* answer of the question at position p only (no handler of the quiz view
\* reads answerIndex: the two sessions are in the same state otherwise)
ShownWith(p, k) ==
    QuizView([quiz EXCEPT ![p].answerIndex = k], order, idx, answers, mode,
             timerOn, timeLeft)

(* C16: while the view is quiz, in examen mode what is shown is the same    *)
(* whatever the right answer of any question of the quiz is, so that it     *)
(* does not tell whether a recorded answer is right; in entrainement mode   *)
(* the choice selected for the current question carries its feedback.       *)
C16_ExamenShowsNoCorrection ==
    (view = "quiz" /\ HasCurrent) =>
        /\ mode = "examen" =>
              \A p \in 1..Len(quiz) : \A k \in 0..(Len(quiz[p].choices) - 1) :
                  ShownWith(p, k) = Shown
        /\ (mode = "entrainement" /\ answers[current.id] # NONE) =>
              \E i \in 1..Len(current.choices) :
                  Shown.choices[i].feedback.text # ""

----------------------------------------------------------------------------
(* The export of the results.  A text is a sequence of symbols: a symbol is *)
(* the double quote, the semicolon, the line feed, or a run of other        *)
(* characters.  The questions of ExportSpec carry their texts in this form, *)
(* with the question and explanation fields the export writes.              *)

DQ   == "\""
SEMI == ";"
NL   == "\n"

\* t.replaceAll('"', '""')
RECURSIVE replaceAll(_)
replaceAll(t) ==
    IF t = <<>> THEN <<>>
    ELSE (IF Head(t) = DQ THEN <<DQ, DQ>> ELSE <<Head(t)>>) \o replaceAll(Tail(t))

\* texts.join(sep)
RECURSIVE join(_, _)
join(texts, sep) ==
    IF texts = <<>> THEN <<>>
    ELSE IF Len(texts) = 1 THEN texts[1]
    ELSE texts[1] \o sep \o join(Tail(texts), sep)

\* '"' + t + '"'
Quoted(t) == <<DQ>> \o t \o <<DQ>>

csvHeader ==
    <<"id", SEMI, "chapitre", SEMI, "niveau", SEMI, "question", SEMI, "choix", SEMI,
      "reponse", SEMI, "correct", SEMI, "explication", SEMI, "sources">>

\* the array of the fields of the row of q
csvFields(q, ans) ==
    LET a       == ans[q.id]
        correct == IF a = q.answerIndex THEN "1" ELSE "0"
        sources == IF q.sourcesT = "array" THEN join(q.sources, <<" || ">>) ELSE <<>>
    IN  << <<q.id>>,
           Quoted(q.chapitre),
           <<q.niveau>>,
           Quoted(replaceAll(q.question)),
           Quoted(join([i \in 1..Len(q.choices) |-> replaceAll(q.choices[i])],
                       <<" | ">>)),
           Quoted(IF a # NONE THEN replaceAll(q.choices[a + 1]) ELSE <<>>),
           <<correct>>,
           Quoted(IF q.explanation # <<>> THEN replaceAll(q.explanation) ELSE <<>>),
           Quoted(replaceAll(sources)) >>

\* lines.join("\n")
csvText(qz, ans) ==
    join(<<csvHeader>> \o [i \in 1..Len(qz) |-> join(csvFields(qz[i], ans), <<SEMI>>)],
         <<NL>>)

\* q.choices[ans] is undefined for some question: replaceAll throws
exportThrows(qz, ans) ==
    \E i \in 1..Len(qz) :
        ans[qz[i].id] # NONE /\ ans[qz[i].id] >= Len(qz[i].choices)

\* "Exporter CSV" (results view)
exportResultsCSV ==
    /\ view = "results"
    /\ ev' = IF Len(quiz) = 0 \/ exportThrows(quiz, answers) THEN Quiet
             ELSE [Quiet EXCEPT !.download =
                      [filename |-> "resultats_qcm_acca.csv",
                       text |-> csvText(quiz, answers)]]
    /\ Effects(view, timerOn, timerMin, startedAt, idx, answers, quiz, FALSE, timer)
    /\ UNCHANGED <<bank, store, prefs, view, quiz, order, idx, answers, timeLeft, now>>

\* the texts of the questions of ExportSpec
ExportTexts == {<<"x">>, <<DQ>>, <<"x", DQ, "y">>}

ExportQ(id, ch, qt, c, ex, src) ==
    [id |-> id, type |-> "mcq", chapitre |-> ch, niveau |-> "debutant",
     question |-> qt,
     choicesT |-> "array", choices |-> <<c, <<"w">>>>,
     answerIndexT |-> "number", answerIndex |-> 0,
     explanation |-> ex,
     sourcesT |-> "array", sources |-> src]

ExportQb == ExportQ("b", <<"Extinction">>, <<"q">>, <<"v">>, <<>>, <<>>)

\* a session of one or two questions, in the results view
ExportInit ==
    \E ch \in ExportTexts, qt \in ExportTexts, c \in ExportTexts,
       ex \in {<<>>} \cup ExportTexts,
       src \in {<<>>} \cup {<<t>> : t \in ExportTexts} \cup {<<<<"p. 12">>, <<DQ>>>>},
       n \in 1..2, a \in {NONE, 0, 1} :
        /\ bank = SubSeq(<<ExportQ("a", ch, qt, c, ex, src), ExportQb>>, 1, n)
        /\ mode = "entrainement"
        /\ randomize = FALSE
        /\ timerOn = FALSE
        /\ timerMin = DefaultTimerMin
        /\ chapitre = ""
        /\ niveau = ""
        /\ count = DefaultCount
        /\ store = MountEffects(EmptyStore,
                                [bank |-> bank, mode |-> "entrainement",
                                 randomize |-> FALSE, timerOn |-> FALSE,
                                 timerMin |-> DefaultTimerMin, chapitre |-> "",
                                 niveau |-> "", count |-> DefaultCount])
        /\ view = "results"
        /\ quiz = bank
        /\ order = Identity(n)
        /\ idx = n - 1
        /\ answers = [NoAnswers EXCEPT !["a"] = a]
        /\ startedAt = Epoch
        /\ timeLeft = 0
        /\ now = Epoch
        /\ timer = NoTimer
        /\ keyAnswers = answers
        /\ ev = Quiet

ExportNext ==
    \/ exportResultsCSV
    \/ newSession

ExportSpec == ExportInit /\ [][ExportNext]_vars

\* the fields of the row of q as the export is described: every quoted field
\* with its double quotes doubled
EscapedFields(q, ans) ==
    << <<q.id>>,
       Quoted(replaceAll(q.chapitre)),
       <<q.niveau>>,
       Quoted(replaceAll(q.question)),
       Quoted(replaceAll(join(q.choices, <<" | ">>))),
       Quoted(IF ans[q.id] # NONE THEN replaceAll(q.choices[ans[q.id] + 1]) ELSE <<>>),
       <<IF ans[q.id] = q.answerIndex THEN "1" ELSE "0">>,
       Quoted(replaceAll(q.explanation)),
       Quoted(replaceAll(join(q.sources, <<" || ">>))) >>

(* C17: the exported text is the header row followed by one row per         *)
(* question of the quiz, in quiz order, the rows separated by line feeds    *)
(* and the fields by semicolons, and every quoted field (chapter, question, *)
(* choices, chosen answer, explanation, sources) is its text with each      *)
(* double quote doubled, between double quotes.                             *)
C17_ExportDoublesEveryQuote ==
    ev.download # NoDownload =>
        ev.download.text =
            join(<<csvHeader>> \o
                 [i \in 1..Len(quiz) |->
                    join(EscapedFields(quiz[i], answers), <<SEMI>>)],
                 <<NL>>)

----------------------------------------------------------------------------
(* C18: whenever finish is called, by "Terminer", by the key n on the last  *)
(* question or by the interval callback, while every question of the quiz   *)
(* has a recorded answer, no confirmation is asked and the view becomes     *)
(* results.                                                                 *)
C18_NoPromptWhenAllAnswered ==
    [][(FinishCalled /\ Unanswered(quiz, answers) = 0) =>
          (ev'.confirm = "none" /\ view' = "results")]_vars

----------------------------------------------------------------------------
(* C19: an interval is set only while the view is quiz, and it is the one   *)
(* of the current session: in the home and results views no callback is     *)
(* left to change timeLeft, call finish or change the view, and the         *)
(* callback of a session never outlives it.                                 *)
C19_TimerOnlyInItsQuiz ==
    /\ view # "quiz" => ~timer.active
    /\ timer.active =>
          /\ timerOn
          /\ timer.quiz = quiz
          /\ timer.startedAt = startedAt
          /\ timer.total = timerMin * SecPerMin

\* the quiz view of a timed session was left after its clock had advanced
C19_Witness ==
    /\ view # "quiz"
    /\ timerOn
    /\ now > Epoch
    /\ ~timer.active

----------------------------------------------------------------------------
\* what the score is computed from: ok, total and the per-chapter counts (pct
\* and the per-chapter percentages are functions of these)
Counts ==
    [ok     |-> scoreOk(quiz, answers),
     total  |-> Len(quiz),
     byChap |-> scoreByChap(quiz, answers)]

(* C21: every step that starts and ends in the results view, a key, an      *)
(* import or a tick of the interval among them, leaves quiz, answers and    *)
(* idx as they were, and with them the score that is displayed.             *)
C21_ResultsFrozen ==
    [][(view = "results" /\ view' = "results") =>
          /\ quiz' = quiz
          /\ answers' = answers
          /\ idx' = idx
          /\ Counts' = Counts]_vars

\* a bank was imported in the results view of a session with an answer
C21_Witness ==
    /\ view = "results"
    /\ ev.alert = "Banque importee avec succes"
    /\ bank # QUESTIONS
    /\ \E i \in 1..Len(quiz) : answers[quiz[i].id] # NONE

====
